---- MODULE Spec2Model ----
(***************************************************************************)
(* removebg.py: resize/crop PNGs to a square and make white pixels         *)
(* transparent.                                                            *)
(*                                                                         *)
(* process_image is modelled in two halves that share no data: the         *)
(* geometry of the image (decode, resize, center crop: SpecSize) and the   *)
(* pixels of the cropped image (tolerance, mask, blur, recombination,      *)
(* save: SpecAlpha).  SpecTol and SpecPair apply the same operators to two *)
(* inputs at once, SpecMain is the batch loop of main().                   *)
(*                                                                         *)
(* Python floats are modelled as exact rationals <<num, den>>, den > 0;    *)
(* round() is Python 3's round-half-to-even.                               *)
(***************************************************************************)
EXTENDS Integers, Sequences, FiniteSets, TLC

VARIABLES
    \* ---- process_image, geometry
    step,        \* position in process_image: "open","resize","crop","save","done"
    w, h,        \* img.size of the decoded source
    size,        \* the size argument
    new_w, new_h,\* the scaled dimensions
    img,         \* [width, height] of the current img object
    uncropped,   \* [width, height] of img when crop() was called
    box,         \* <<left, top, right, bottom>> handed to crop()
    \* ---- process_image, pixels of the cropped image
    astep,       \* "tolerance","mask","smooth","recombine","putdata","save","done"
    datas,       \* list(img.getdata()): sequence of <<r, g, b, a>>
    tolerance,   \* the tolerance argument
    smoothing,   \* the smoothing argument
    threshold,   \* int(round(255 * _tol))
    mask_data,   \* the 0/255 list
    alpha_mask,  \* pixels of the 'L' image alpha_mask
    r_final,     \* the recombined pixel list
    new_data,    \* the list that is never filled
    pixels,      \* pixels of img
    saved,       \* pixels written by img.save
    \* ---- two tolerances side by side
    tstep,       \* "call" or "done"
    t1, t2,      \* two tolerance arguments
    tol1, tol2,  \* their _tol
    thr1, thr2,  \* their thresholds
    \* ---- two cropped images side by side
    pstep,       \* "call" or "done"
    imgA, imgB,  \* two pixel lists with the same r, g, b
    ptolerance,  \* the tolerance argument of both calls
    psmoothing,  \* the smoothing argument of both calls
    pthreshold,  \* the threshold of both calls
    outA, outB,  \* the pixels saved for imgA and for imgB
    \* ---- main
    mpc,           \* "start", "scan", "gathered", "loop", "exit"
    in_dir_exists, \* os.path.isdir(in_dir)
    recursive,     \* args.recursive
    tree,          \* the files under in_dir, in listing order
    out_dir_made,  \* os.makedirs(out_dir) has returned
    dest_dirs,     \* the subdirectories present under out_dir
    pngs,          \* the list pngs: indices into tree
    idx,           \* the position of the for loop in pngs
    stdout,        \* the lines printed
    written,       \* the files of tree whose output was saved
    exit_code      \* the exit status of the process, -1 while it runs

gvars == <<step, w, h, size, new_w, new_h, img, uncropped, box>>
avars == <<astep, datas, tolerance, smoothing, threshold, mask_data, alpha_mask,
           r_final, new_data, pixels, saved>>
tvars == <<tstep, t1, t2, tol1, tol2, thr1, thr2>>
pvars == <<pstep, imgA, imgB, ptolerance, psmoothing, pthreshold, outA, outB>>
mvars == <<mpc, in_dir_exists, recursive, tree, out_dir_made, dest_dirs, pngs, idx,
           stdout, written, exit_code>>
notSize == <<avars, tvars, pvars, mvars>>
notAlpha == <<gvars, tvars, pvars, mvars>>
notTol == <<gvars, avars, pvars, mvars>>
notPair == <<gvars, avars, tvars, mvars>>
notMain == <<gvars, avars, tvars, pvars>>
vars == <<gvars, avars, tvars, pvars, mvars>>

\* ---------------------------------------------------------------- bounds
MaxDim == 6
MaxSize == 5
MaxPixels == 2
MaxTolerance == 260
MaxPairPixels == 2
MaxFiles == 3
MaxDirs == 1

\* ---------------------------------------------------------------- constants
Full == 255
MaxRadius == 5

\* ---------------------------------------------------------------- helpers
Max(a, b) == IF a >= b THEN a ELSE b
Min(a, b) == IF a <= b THEN a ELSE b

\* Python 3 round(n / d) for d > 0: nearest integer, ties to the even one.
RoundHalfEven(n, d) ==
    LET q == n \div d
        r == n % d
    IN  IF 2 * r > d THEN q + 1
        ELSE IF 2 * r < d THEN q
        ELSE IF q % 2 = 0 THEN q ELSE q + 1

\* ---------------------------------------------------------------- geometry
\* The dimension x scaled by size / min(w, h), floored at 1.
ScaledDimWithMax(x, sz, ww, hh) == Max(1, RoundHalfEven(x * sz, Max(ww, hh)))
ScaledDim(x, sz, ww, hh) == Max(1, RoundHalfEven(x * sz, Min(ww, hh)))

\* left / top of the centered crop window.
CropOrigin(dim, sz) == Max(0, (dim - sz) \div 2)

\* The box handed to img.crop.
CropBoxToEdge(width, height, sz) ==
    <<CropOrigin(width, sz), CropOrigin(height, sz), width, height>>
CropBox(width, height, sz) ==
    LET left == CropOrigin(width, sz)
        top == CropOrigin(height, sz)
    IN  <<left, top, left + sz, top + sz>>

Idle == [width |-> 0, height |-> 0]

\* The sources tried: every w x h up to MaxDim with every size up to MaxSize,
\* and the 400 x 200 source with size 340.
Sources ==
    {<<a, b, s>> : a \in 1..MaxDim, b \in 1..MaxDim, s \in 1..MaxSize}
    \cup {<<400, 200, 340>>}

AlphaIdle ==
    /\ astep = "idle"
    /\ datas = <<>>
    /\ tolerance = [numeric |-> TRUE, num |-> 0, den |-> 1]
    /\ smoothing = [numeric |-> TRUE, num |-> 0, den |-> 1]
    /\ threshold = 0
    /\ mask_data = <<>>
    /\ alpha_mask = <<>>
    /\ r_final = <<>>
    /\ new_data = <<>>
    /\ pixels = <<>>
    /\ saved = <<>>

TolIdle ==
    /\ tstep = "idle"
    /\ t1 = [numeric |-> TRUE, num |-> 0, den |-> 1]
    /\ t2 = [numeric |-> TRUE, num |-> 0, den |-> 1]
    /\ tol1 = <<0, 1>>
    /\ tol2 = <<0, 1>>
    /\ thr1 = 0
    /\ thr2 = 0

PairIdle ==
    /\ pstep = "idle"
    /\ imgA = <<>>
    /\ imgB = <<>>
    /\ ptolerance = [numeric |-> TRUE, num |-> 0, den |-> 1]
    /\ psmoothing = [numeric |-> TRUE, num |-> 0, den |-> 1]
    /\ pthreshold = 0
    /\ outA = <<>>
    /\ outB = <<>>

MainIdle ==
    /\ mpc = "idle"
    /\ in_dir_exists = FALSE
    /\ recursive = FALSE
    /\ tree = <<>>
    /\ out_dir_made = FALSE
    /\ dest_dirs = {}
    /\ pngs = <<>>
    /\ idx = 0
    /\ stdout = <<>>
    /\ written = {}
    /\ exit_code = -1

SizeIdle ==
    /\ step = "idle"
    /\ w = 0
    /\ h = 0
    /\ size = 0
    /\ new_w = 0
    /\ new_h = 0
    /\ img = Idle
    /\ uncropped = Idle
    /\ box = <<0, 0, 0, 0>>

InitSize ==
    /\ \E s \in Sources : w = s[1] /\ h = s[2] /\ size = s[3]
    /\ step = "open"
    /\ new_w = 0
    /\ new_h = 0
    /\ img = Idle
    /\ uncropped = Idle
    /\ box = <<0, 0, 0, 0>>
    /\ AlphaIdle
    /\ TolIdle
    /\ PairIdle
    /\ MainIdle

\* img = Image.open(in_path).convert('RGBA'); w, h = img.size
Open ==
    /\ step = "open"
    /\ img' = [width |-> w, height |-> h]
    /\ step' = "resize"
    /\ UNCHANGED <<w, h, size, new_w, new_h, uncropped, box, notSize>>

\* The scaled dimensions differ from the source's: img.resize.
Resample ==
    /\ step = "resize"
    /\ LET nw == ScaledDim(w, size, w, h)
           nh == ScaledDim(h, size, w, h)
       IN  /\ <<nw, nh>> # <<w, h>>
           /\ new_w' = nw
           /\ new_h' = nh
           /\ img' = [width |-> nw, height |-> nh]
    /\ step' = "crop"
    /\ UNCHANGED <<w, h, size, uncropped, box, notSize>>

\* The scaled dimensions are the source's: img is left as decoded.
KeepSize ==
    /\ step = "resize"
    /\ LET nw == ScaledDim(w, size, w, h)
           nh == ScaledDim(h, size, w, h)
       IN  /\ <<nw, nh>> = <<w, h>>
           /\ new_w' = nw
           /\ new_h' = nh
    /\ step' = "crop"
    /\ UNCHANGED <<w, h, size, img, uncropped, box, notSize>>

\* img = img.crop((left, top, right, bottom)): the result is as wide and as
\* high as the box, whether or not the box lies inside the image.
Crop ==
    /\ step = "crop"
    /\ LET b == CropBox(img.width, img.height, size)
       IN  /\ box' = b
           /\ uncropped' = img
           /\ img' = [width |-> b[3] - b[1], height |-> b[4] - b[2]]
    /\ step' = "save"
    /\ UNCHANGED <<w, h, size, new_w, new_h, notSize>>

\* Lines 42-90 keep img's dimensions: the mask is made of img.size and
\* putdata writes pixels in place; img.save writes img.
SaveSized ==
    /\ step = "save"
    /\ step' = "done"
    /\ UNCHANGED <<w, h, size, new_w, new_h, img, uncropped, box, notSize>>

NextSize == Open \/ Resample \/ KeepSize \/ Crop \/ SaveSized

SpecSize == InitSize /\ [][NextSize]_vars

\* ---------------------------------------------------------------- pixels
\* An argument is a number (the rational num / den) or something float()
\* rejects.
Num(n, d) == [numeric |-> TRUE, num |-> n, den |-> d]
NotANumber == [numeric |-> FALSE, num |-> 0, den |-> 1]

Less(p, q) == p[1] * q[2] < q[1] * p[2]
LessEq(p, q) == p[1] * q[2] <= q[1] * p[2]

\* try: float(x) except Exception: 0.0
ToFloat(arg) == IF arg.numeric THEN <<arg.num, arg.den>> ELSE <<0, 1>>

\* max(0.0, min(1.0, q))
Clamp01(q) ==
    IF Less(<<1, 1>>, q) THEN <<1, 1>>
    ELSE IF Less(q, <<0, 1>>) THEN <<0, 1>>
    ELSE q

\* _tol: the legacy 0..255 scale is taken for every value above 1.0.
NormalizeToleranceBy256(arg) ==
    LET f == ToFloat(arg)
    IN  IF Less(<<1, 1>>, f) THEN Clamp01(<<f[1], f[2] * (Full + 1)>>) ELSE f
NormalizeTolerance(arg) ==
    LET f == ToFloat(arg)
    IN  IF Less(<<1, 1>>, f) THEN Clamp01(<<f[1], f[2] * Full>>) ELSE f

\* threshold = int(round(255 * _tol))
ThresholdInverted(arg) ==
    LET q == NormalizeTolerance(arg)
    IN  Full - RoundHalfEven(Full * q[1], q[2])
Threshold(arg) ==
    LET q == NormalizeTolerance(arg)
    IN  RoundHalfEven(Full * q[1], q[2])

\* The mask value of one pixel: 0 (transparent) when it is white enough.
MaskValueStrict(px, thr) ==
    IF px[1] > thr /\ px[2] > thr /\ px[3] > thr THEN 0 ELSE Full
MaskValue(px, thr) ==
    IF px[1] >= thr /\ px[2] >= thr /\ px[3] >= thr THEN 0 ELSE Full

MaskData(ds, thr) == [i \in 1..Len(ds) |-> MaskValue(ds[i], thr)]

\* Image.putdata: data is copied over the image's first Len(data) pixels, the
\* rest of the image is left as it is.
PutDataReplacing(image, data) ==
    [i \in 1..Len(image) |-> IF i <= Len(data) THEN data[i] ELSE <<0, 0, 0, 0>>]
PutData(image, data) ==
    [i \in 1..Len(image) |-> IF i <= Len(data) THEN data[i] ELSE image[i]]

\* Image.new('L', img.size): all zero.
NewMask(n) == [i \in 1..n |-> 0]

\* s = max(0.0, min(1.0, float(smoothing)))
Smooth(arg) == Clamp01(ToFloat(arg))

\* radius = s * max_radius
Radius(s) == <<s[1] * MaxRadius, s[2]>>

RECURSIVE SumAround(_, _, _)
SumAround(mask, from, to) ==
    IF from > to THEN 0
    ELSE mask[Max(1, Min(Len(mask), from))] + SumAround(mask, from + 1, to)

\* ImageFilter.GaussianBlur(radius) on the mask.  Pillow computes it with box
\* blurs over edge-extended rows; here one box of half-width ceil(radius) over
\* the pixel list: a function of the mask and the radius alone, each value the
\* mean of its neighbourhood.
GaussianBlur(mask, radius) ==
    LET k == (radius[1] + radius[2] - 1) \div radius[2]
    IN  [i \in 1..Len(mask) |-> SumAround(mask, i - k, i + k) \div (2 * k + 1)]

\* alpha_mask as it is after lines 70-78.
Smoothed(mask, arg) ==
    IF Less(<<0, 1>>, Smooth(arg)) THEN GaussianBlur(mask, Radius(Smooth(arg)))
    ELSE mask

\* r_final: the source's r, g, b with the mask value as alpha.
RecombinedKeepingAlpha(ds, mask) ==
    [i \in 1..Len(ds) |-> <<ds[i][1], ds[i][2], ds[i][3], Min(ds[i][4], mask[i])>>]
Recombined(ds, mask) ==
    [i \in 1..Len(ds) |-> <<ds[i][1], ds[i][2], ds[i][3], mask[i]>>]

\* The pixels of the cropped image: white, near-white, grey, coloured and
\* black ones, opaque and transparent.
Palette ==
    { <<255, 255, 255, 255>>, <<255, 255, 255, 0>>, <<254, 255, 255, 255>>,
      <<128, 128, 127, 255>>, <<200, 100, 0, 0>>, <<0, 0, 0, 255>> }

Images == UNION {[1..n -> Palette] : n \in 1..MaxPixels}

Tolerances ==
    { Num(0, 1), Num(1, 10), Num(3, 10), Num(1, 2), Num(254, 255), Num(1, 1),
      Num(2, 1), Num(128, 1), Num(255, 1), Num(300, 1), Num(-1, 2), NotANumber }

Smoothings ==
    { Num(0, 1), Num(1, 5), Num(1, 2), Num(2, 1), Num(-1, 1), NotANumber }

InitAlpha ==
    /\ astep = "mask"
    /\ datas \in Images
    /\ tolerance \in Tolerances
    /\ smoothing \in Smoothings
    /\ threshold = 0
    /\ mask_data = <<>>
    /\ alpha_mask = NewMask(Len(datas))
    /\ r_final = <<>>
    /\ new_data = <<>>
    /\ pixels = datas
    /\ saved = <<>>
    /\ SizeIdle
    /\ TolIdle
    /\ PairIdle
    /\ MainIdle

\* Lines 49-67: the threshold, the 0/255 list and alpha_mask.putdata.
BuildMask ==
    /\ astep = "mask"
    /\ threshold' = Threshold(tolerance)
    /\ mask_data' = MaskData(datas, Threshold(tolerance))
    /\ alpha_mask' = PutData(alpha_mask, MaskData(datas, Threshold(tolerance)))
    /\ astep' = "smooth"
    /\ UNCHANGED <<datas, tolerance, smoothing, r_final, new_data, pixels, saved,
                   notAlpha>>

\* Lines 70-78 with s > 0.0: the mask is blurred.
BlurMask ==
    /\ astep = "smooth"
    /\ Less(<<0, 1>>, Smooth(smoothing))
    /\ alpha_mask' = GaussianBlur(alpha_mask, Radius(Smooth(smoothing)))
    /\ astep' = "recombine"
    /\ UNCHANGED <<datas, tolerance, smoothing, threshold, mask_data, r_final,
                   new_data, pixels, saved, notAlpha>>

\* Lines 70-78 with s = 0.0: the mask is left binary.
SkipBlur ==
    /\ astep = "smooth"
    /\ ~Less(<<0, 1>>, Smooth(smoothing))
    /\ astep' = "recombine"
    /\ UNCHANGED <<datas, tolerance, smoothing, threshold, mask_data, alpha_mask,
                   r_final, new_data, pixels, saved, notAlpha>>

\* Lines 81-87: r_final and img.putdata(r_final).
Recombine ==
    /\ astep = "recombine"
    /\ r_final' = Recombined(datas, alpha_mask)
    /\ pixels' = PutData(pixels, Recombined(datas, alpha_mask))
    /\ astep' = "putdata"
    /\ UNCHANGED <<datas, tolerance, smoothing, threshold, mask_data, alpha_mask,
                   new_data, saved, notAlpha>>

\* Line 89: img.putdata(new_data), new_data being the list nothing was
\* appended to.
PutNewData ==
    /\ astep = "putdata"
    /\ pixels' = PutData(pixels, new_data)
    /\ astep' = "save"
    /\ UNCHANGED <<datas, tolerance, smoothing, threshold, mask_data, alpha_mask,
                   r_final, new_data, saved, notAlpha>>

\* Line 90: img.save(out_path, 'PNG').
Save ==
    /\ astep = "save"
    /\ saved' = pixels
    /\ astep' = "done"
    /\ UNCHANGED <<datas, tolerance, smoothing, threshold, mask_data, alpha_mask,
                   r_final, new_data, pixels, notAlpha>>

NextAlpha == BuildMask \/ BlurMask \/ SkipBlur \/ Recombine \/ PutNewData \/ Save

SpecAlpha == InitAlpha /\ [][NextAlpha]_vars

\* ---------------------------------------------------------------- two tolerances
\* Tenths from -0.5 to 1.5, the integers 2..MaxTolerance and a value float()
\* rejects.
ToleranceValues ==
    {Num(k, 10) : k \in -5..15} \cup {Num(k, 1) : k \in 2..MaxTolerance}
    \cup {NotANumber}

InitTol ==
    /\ tstep = "call"
    /\ t1 \in ToleranceValues
    /\ t2 \in ToleranceValues
    /\ tol1 = <<0, 1>>
    /\ tol2 = <<0, 1>>
    /\ thr1 = 0
    /\ thr2 = 0
    /\ SizeIdle
    /\ AlphaIdle
    /\ PairIdle
    /\ MainIdle

\* Lines 49-58 for t1 and for t2.
ComputeThresholds ==
    /\ tstep = "call"
    /\ tol1' = NormalizeTolerance(t1)
    /\ tol2' = NormalizeTolerance(t2)
    /\ thr1' = Threshold(t1)
    /\ thr2' = Threshold(t2)
    /\ tstep' = "done"
    /\ UNCHANGED <<t1, t2, notTol>>

NextTol == ComputeThresholds

SpecTol == InitTol /\ [][NextTol]_vars

\* ---------------------------------------------------------------- two images
\* Lines 42-90 on the pixels ds of the cropped image: what img.save writes.
ProcessPixels(ds, tol, sm) ==
    LET mask0 == PutData(NewMask(Len(ds)), MaskData(ds, Threshold(tol)))
        mask == Smoothed(mask0, sm)
        recombined == PutData(ds, Recombined(ds, mask))
    IN  PutData(recombined, <<>>)

Alphas == {0, Full}

\* imgB: the r, g, b of imgA under any alphas.
Realphaed(image) ==
    { [i \in 1..Len(image) |-> <<image[i][1], image[i][2], image[i][3], al[i]>>] :
        al \in [1..Len(image) -> Alphas] }

PairImages == UNION {[1..n -> Palette] : n \in 1..MaxPairPixels}

InitPair ==
    /\ pstep = "call"
    /\ imgA \in PairImages
    /\ imgB \in Realphaed(imgA)
    /\ ptolerance \in Tolerances
    /\ psmoothing \in Smoothings
    /\ pthreshold = 0
    /\ outA = <<>>
    /\ outB = <<>>
    /\ SizeIdle
    /\ AlphaIdle
    /\ TolIdle
    /\ MainIdle

\* process_image on imgA and on imgB with the same tolerance and smoothing.
ProcessBoth ==
    /\ pstep = "call"
    /\ pthreshold' = Threshold(ptolerance)
    /\ outA' = ProcessPixels(imgA, ptolerance, psmoothing)
    /\ outB' = ProcessPixels(imgB, ptolerance, psmoothing)
    /\ pstep' = "done"
    /\ UNCHANGED <<imgA, imgB, ptolerance, psmoothing, notPair>>

NextPair == ProcessBoth

SpecPair == InitPair /\ [][NextPair]_vars

\* ---------------------------------------------------------------- main
\* A file under in_dir: the extension of its name, the directory it lies in
\* (0: in_dir itself, d > 0: the subdirectory d) and whether process_image
\* returns for it (readable = FALSE: it raises, as for a corrupt file).
Extensions == {".png", ".PNG", ".txt"}

Files == [ext : Extensions, dir : 0..MaxDirs, readable : BOOLEAN]

Trees == UNION {[1..n -> Files] : n \in 0..MaxFiles}

\* f.lower()
Lower(ext) == IF ext = ".PNG" THEN ".png" ELSE ext

\* f.lower().endswith('.png')
IsPng(f) == Lower(f.ext) = ".png"

RECURSIVE Select(_, _, _)
\* The indices i >= from of tree t whose file is a PNG in directory d.
Select(t, d, from) ==
    IF from > Len(t) THEN <<>>
    ELSE IF IsPng(t[from]) /\ t[from].dir = d
         THEN <<from>> \o Select(t, d, from + 1)
         ELSE Select(t, d, from + 1)

RECURSIVE Walk(_, _)
\* os.walk(in_dir): the PNGs of directory d and of the directories after it.
Walk(t, d) ==
    IF d > MaxDirs THEN <<>> ELSE Select(t, d, 1) \o Walk(t, d + 1)

\* os.listdir(in_dir): the PNGs of in_dir itself.
ListDir(t) == Select(t, 0, 1)

\* The directory of dest_path under out_dir (0: out_dir itself).
DestDir(f, rec) == IF rec THEN f.dir ELSE 0

\* dest_dir and not os.path.isdir(dest_dir)
NeedsMakedirs(f, rec, made) == DestDir(f, rec) # 0 /\ DestDir(f, rec) \notin made

InitMain ==
    /\ mpc = "start"
    /\ in_dir_exists \in BOOLEAN
    /\ recursive \in BOOLEAN
    /\ tree \in Trees
    /\ out_dir_made = FALSE
    /\ dest_dirs = {}
    /\ pngs = <<>>
    /\ idx = 0
    /\ stdout = <<>>
    /\ written = {}
    /\ exit_code = -1
    /\ SizeIdle
    /\ AlphaIdle
    /\ TolIdle
    /\ PairIdle

\* Lines 110-112: the input directory does not exist, sys.exit(1).
NoInputDir ==
    /\ mpc = "start"
    /\ ~in_dir_exists
    /\ stdout' = Append(stdout, <<"Input directory does not exist", 0>>)
    /\ exit_code' = 1
    /\ mpc' = "exit"
    /\ UNCHANGED <<in_dir_exists, recursive, tree, out_dir_made, dest_dirs, pngs,
                   idx, written, notMain>>

\* Line 114: os.makedirs(out_dir, exist_ok=True) returns.
MakeOutDir ==
    /\ mpc = "start"
    /\ in_dir_exists
    /\ out_dir_made' = TRUE
    /\ mpc' = "scan"
    /\ UNCHANGED <<in_dir_exists, recursive, tree, dest_dirs, pngs, idx, stdout,
                   written, exit_code, notMain>>

\* Line 114: os.makedirs(out_dir, exist_ok=True) raises OSError (out_dir is a
\* file, or its parent cannot be written); nothing catches it and the
\* interpreter ends with status 1.
MakeOutDirRaises ==
    /\ mpc = "start"
    /\ in_dir_exists
    /\ exit_code' = 1
    /\ mpc' = "exit"
    /\ UNCHANGED <<in_dir_exists, recursive, tree, out_dir_made, dest_dirs, pngs,
                   idx, stdout, written, notMain>>

\* Lines 118-122: the recursive scan.
ScanRecursive ==
    /\ mpc = "scan"
    /\ recursive
    /\ pngs' = Walk(tree, 0)
    /\ mpc' = "gathered"
    /\ UNCHANGED <<in_dir_exists, recursive, tree, out_dir_made, dest_dirs, idx,
                   stdout, written, exit_code, notMain>>

\* Lines 123-126: the scan of in_dir alone.
ScanFlat ==
    /\ mpc = "scan"
    /\ ~recursive
    /\ pngs' = ListDir(tree)
    /\ mpc' = "gathered"
    /\ UNCHANGED <<in_dir_exists, recursive, tree, out_dir_made, dest_dirs, idx,
                   stdout, written, exit_code, notMain>>

\* Lines 128-130: no PNG, main returns.
NoPngs ==
    /\ mpc = "gathered"
    /\ pngs = <<>>
    /\ stdout' = Append(stdout, <<"No PNG files found in", 0>>)
    /\ exit_code' = 0
    /\ mpc' = "exit"
    /\ UNCHANGED <<in_dir_exists, recursive, tree, out_dir_made, dest_dirs, pngs,
                   idx, written, notMain>>

\* Line 132: the for loop starts.
EnterLoop ==
    /\ mpc = "gathered"
    /\ pngs # <<>>
    /\ idx' = 1
    /\ mpc' = "loop"
    /\ UNCHANGED <<in_dir_exists, recursive, tree, out_dir_made, dest_dirs, pngs,
                   stdout, written, exit_code, notMain>>

\* dest_dirs after lines 141-143 returned for file f.
AfterMakedirs(f) ==
    IF NeedsMakedirs(f, recursive, dest_dirs)
    THEN dest_dirs \cup {DestDir(f, recursive)}
    ELSE dest_dirs

\* Lines 133-147: one iteration in which process_image returns.
IterationProcessed ==
    /\ mpc = "loop"
    /\ idx <= Len(pngs)
    /\ tree[pngs[idx]].readable
    /\ dest_dirs' = AfterMakedirs(tree[pngs[idx]])
    /\ written' = written \cup {pngs[idx]}
    /\ stdout' = Append(stdout, <<"Processed", pngs[idx]>>)
    /\ idx' = idx + 1
    /\ UNCHANGED <<mpc, in_dir_exists, recursive, tree, out_dir_made, pngs,
                   exit_code, notMain>>

\* Lines 133-149: one iteration in which process_image raises; the except
\* clause prints the failure.
IterationFailed ==
    /\ mpc = "loop"
    /\ idx <= Len(pngs)
    /\ ~tree[pngs[idx]].readable
    /\ dest_dirs' = AfterMakedirs(tree[pngs[idx]])
    /\ stdout' = Append(stdout, <<"Failed to process", pngs[idx]>>)
    /\ idx' = idx + 1
    /\ UNCHANGED <<mpc, in_dir_exists, recursive, tree, out_dir_made, pngs,
                   written, exit_code, notMain>>

\* Lines 141-143: os.makedirs(dest_dir, exist_ok=True) raises OSError.  The
\* call stands before the try statement: the exception leaves main and the
\* interpreter ends with status 1.
MakedirsRaises ==
    /\ mpc = "loop"
    /\ idx <= Len(pngs)
    /\ NeedsMakedirs(tree[pngs[idx]], recursive, dest_dirs)
    /\ exit_code' = 1
    /\ mpc' = "exit"
    /\ UNCHANGED <<in_dir_exists, recursive, tree, out_dir_made, dest_dirs, pngs,
                   idx, stdout, written, notMain>>

\* The loop is over: main returns.
Return ==
    /\ mpc = "loop"
    /\ idx > Len(pngs)
    /\ exit_code' = 0
    /\ mpc' = "exit"
    /\ UNCHANGED <<in_dir_exists, recursive, tree, out_dir_made, dest_dirs, pngs,
                   idx, stdout, written, notMain>>

NextMain ==
    \/ NoInputDir
    \/ MakeOutDir
    \/ MakeOutDirRaises
    \/ ScanRecursive
    \/ ScanFlat
    \/ NoPngs
    \/ EnterLoop
    \/ IterationProcessed
    \/ IterationFailed
    \/ MakedirsRaises
    \/ Return

SpecMain == InitMain /\ [][NextMain]_vars

\* ================================================================ claims
Rgb(px) == <<px[1], px[2], px[3]>>
WhiteEnough(px, thr) == px[1] >= thr /\ px[2] >= thr /\ px[3] >= thr
PureWhite(px) == Rgb(px) = <<Full, Full, Full>>
IsZero(arg) == arg.numeric /\ arg.num = 0
InUnitRange(arg) == arg.numeric /\ 0 <= arg.num /\ arg.num <= arg.den

\* C1: for every source of width w >= 1 and height h >= 1 and every size >= 1,
\* the image process_image produces is exactly size wide and size high.
C1_OutputIsSizeBySize ==
    step \in {"save", "done"} => img.width = size /\ img.height = size

\* A wide source was scaled, cropped out of a wider image and saved.
C1_Witness ==
    /\ step = "done"
    /\ w > h
    /\ uncropped.width > size
    /\ img = [width |-> size, height |-> size]

\* C2: with smoothing = 0 and tolerance in [0.0, 1.0] every output alpha is 0
\* if and only if r, g and b are all >= threshold, the integer nearest to
\* 255 * tolerance, and 255 otherwise; at tolerance 1.0 exactly the pure white
\* pixels get alpha 0, at tolerance 0.0 every pixel does.
C2_AlphaIsBinaryByThreshold ==
    (astep = "done" /\ IsZero(smoothing) /\ InUnitRange(tolerance)) =>
        /\ 2 * (Full * tolerance.num - threshold * tolerance.den) <= tolerance.den
        /\ 2 * (threshold * tolerance.den - Full * tolerance.num) <= tolerance.den
        /\ Len(saved) = Len(datas)
        /\ \A i \in 1..Len(datas) :
            /\ saved[i][4] \in {0, Full}
            /\ saved[i][4] = 0 <=> WhiteEnough(datas[i], threshold)
            /\ tolerance.num = tolerance.den =>
                (saved[i][4] = 0 <=> PureWhite(datas[i]))
            /\ tolerance.num = 0 => saved[i][4] = 0

\* At tolerance 1.0 without smoothing one pixel came out transparent and
\* another opaque.
C2_Witness ==
    /\ astep = "done"
    /\ IsZero(smoothing)
    /\ tolerance = Num(1, 1)
    /\ \E i, j \in 1..Len(saved) : saved[i][4] = 0 /\ saved[j][4] = Full

\* The outcome lines printed for file k of tree.
Outcomes(k) ==
    {i \in 1..Len(stdout) :
        stdout[i][2] = k /\ stdout[i][1] \in {"Processed", "Failed to process"}}

\* C3: once the input directory is validated, no error raised while handling
\* one discovered PNG (creating its destination directory included) aborts
\* the run: when the process ends every discovered PNG has exactly one
\* outcome line, Processed or Failed to process.
C3_EveryPngGetsOneOutcome ==
    (mpc = "exit" /\ in_dir_exists /\ out_dir_made) =>
        \A k \in 1..Len(pngs) : Cardinality(Outcomes(pngs[k])) = 1

\* C4: the exit code is 1 when the input directory does not exist, and then
\* neither the output directory is created nor any file scanned or
\* processed; in every other run the exit code is 0.
C4_ExitCodeOneOnlyWithoutInputDir ==
    mpc = "exit" =>
        /\ exit_code = (IF in_dir_exists THEN 0 ELSE 1)
        /\ ~in_dir_exists => ~out_dir_made /\ pngs = <<>> /\ written = {}

\* C5: for any two tolerance values t1 <= t2, threshold(t1) <= threshold(t2),
\* and the pixels white for t2 are white for t1.
C5_ThresholdMonotonic ==
    (tstep = "done" /\ t1.numeric /\ t2.numeric /\ LessEq(ToFloat(t1), ToFloat(t2))) =>
        /\ thr1 <= thr2
        /\ \A px \in Palette : WhiteEnough(px, thr2) => WhiteEnough(px, thr1)

LegacyScale(arg) == arg.numeric /\ arg.num > arg.den

\* C5 as amended: for two tolerance values t1 <= t2 on the same scale (both at
\* most 1.0, or both above 1.0), threshold(t1) <= threshold(t2), and the
\* pixels white for t2 are white for t1.
C5_ThresholdMonotonicWithinScale ==
    (/\ tstep = "done"
     /\ t1.numeric
     /\ t2.numeric
     /\ LessEq(ToFloat(t1), ToFloat(t2))
     /\ LegacyScale(t1) = LegacyScale(t2)) =>
        /\ thr1 <= thr2
        /\ \A px \in Palette : WhiteEnough(px, thr2) => WhiteEnough(px, thr1)

\* Two tolerances of one scale with different thresholds.
C5_Witness ==
    /\ tstep = "done"
    /\ t1 = Num(3, 10)
    /\ t2 = Num(10, 10)
    /\ thr1 = 76
    /\ thr2 = Full

\* C6: a tolerance above 1.0 is divided by 255 and clamped to [0, 1] before
\* the threshold is computed: 255 gives 1.0 and threshold 255 (only pure white
\* removed), 128 gives about 0.502 and threshold 128, every integer t in
\* 2..255 gives threshold t.
C6_LegacyToleranceScale ==
    (tstep = "done" /\ LegacyScale(t1)) =>
        /\ t1.num <= Full * t1.den => tol1[1] * Full * t1.den = t1.num * tol1[2]
        /\ t1.num > Full * t1.den => tol1[1] = tol1[2]
        /\ (t1.den = 1 /\ t1.num \in 2..Full) => thr1 = t1.num
        /\ t1 = Num(Full, 1) =>
            /\ tol1[1] = tol1[2]
            /\ thr1 = Full
            /\ \A px \in Palette : WhiteEnough(px, thr1) <=> PureWhite(px)
        /\ t1 = Num(128, 1) =>
            /\ thr1 = 128
            /\ Less(<<501, 1000>>, tol1)
            /\ Less(tol1, <<503, 1000>>)

\* The legacy tolerance 128 was normalized and gave threshold 128.
C6_Witness ==
    /\ tstep = "done"
    /\ t1 = Num(128, 1)
    /\ thr1 = 128
    /\ tol1 = <<128, Full>>

\* C7: for every tolerance value, negative ones, ones above 255 and
\* non-numeric ones included, the threshold lies in 0..255.
C7_ThresholdInByteRange ==
    tstep = "done" => thr1 \in 0..Full

\* C8: after the resize step the smaller dimension is exactly size and the
\* larger at least size, so the crop window, left = (width - size) // 2,
\* top = (height - size) // 2, lies inside the resized image; a 400 x 200
\* source with size 340 is resized to 680 x 340 and cropped from (170, 0).
C8_CropWindowInsideResizedImage ==
    /\ step = "crop" =>
        /\ img = [width |-> new_w, height |-> new_h]
        /\ Min(img.width, img.height) = size
        /\ Max(img.width, img.height) >= size
    /\ step \in {"save", "done"} =>
        /\ uncropped = [width |-> new_w, height |-> new_h]
        /\ Min(uncropped.width, uncropped.height) = size
        /\ box[1] = (uncropped.width - size) \div 2
        /\ box[2] = (uncropped.height - size) \div 2
        /\ box[3] = box[1] + size
        /\ box[4] = box[2] + size
        /\ 0 <= box[1] /\ box[3] <= uncropped.width
        /\ 0 <= box[2] /\ box[4] <= uncropped.height
        /\ (w = 400 /\ h = 200 /\ size = 340) =>
            /\ uncropped = [width |-> 680, height |-> 340]
            /\ box[1] = 170
            /\ box[2] = 0

\* The 400 x 200 source was cropped from (170, 0).
C8_Witness ==
    /\ step = "done"
    /\ w = 400 /\ h = 200 /\ size = 340
    /\ box = <<170, 0, 510, 340>>

\* C9: the saved image has, at every position, the r, g, b of the cropped
\* image and the mask value (after the optional blur) as alpha; nothing
\* between the recombination and the save, the putdata of the empty new_data
\* included, alters the pixels.
C9_SavedIsRecombined ==
    /\ astep \in {"putdata", "save", "done"} =>
        /\ Len(pixels) = Len(datas)
        /\ pixels = r_final
        /\ \A i \in 1..Len(datas) :
            Rgb(pixels[i]) = Rgb(datas[i]) /\ pixels[i][4] = alpha_mask[i]
    /\ astep = "done" => saved = pixels

\* A blurred mask with an intermediate value was saved as alpha.
C9_Witness ==
    /\ astep = "done"
    /\ new_data = <<>>
    /\ \E i \in 1..Len(saved) :
        /\ saved[i][4] \notin {0, Full}
        /\ saved[i][4] = alpha_mask[i]
        /\ Rgb(saved[i]) = Rgb(datas[i])

\* C10: two cropped images that agree on r, g, b everywhere and differ only
\* in alpha give identical outputs for the same tolerance and smoothing; with
\* smoothing = 0 a fully transparent source pixel that is not white enough
\* comes out with alpha 255.
C10_OutputIgnoresSourceAlpha ==
    pstep = "done" =>
        /\ outA = outB
        /\ IsZero(psmoothing) =>
            \A i \in 1..Len(imgA) :
                (imgA[i][4] = 0 /\ ~WhiteEnough(imgA[i], pthreshold)) =>
                    outA[i][4] = Full

\* Two images differing in alpha were processed without smoothing and a
\* transparent source pixel came out opaque.
C10_Witness ==
    /\ pstep = "done"
    /\ imgA # imgB
    /\ IsZero(psmoothing)
    /\ \E i \in 1..Len(imgA) :
        imgA[i][4] = 0 /\ imgB[i][4] = Full /\ outA[i][4] = Full /\ outB[i][4] = Full

====
